---- MODULE Spec2Model ----
(***************************************************************************)
(* A model of mathmate.js (src/index.js): the BigDec fixed-point decimal,  *)
(* a pair (dp, v) of a scale and a signed unbounded integer (a JavaScript  *)
(* BigInt), and the calls a program makes on it.  JavaScript strings are   *)
(* modelled as sequences of one-character strings.                         *)
(***************************************************************************)
EXTENDS Integers, Sequences, FiniteSets, TLC

\* The value e, once v has been evaluated: TLC evaluates a definition where it
\* is first used, and After fixes that place; it does not change the value.
After(v, e) == CASE v = v -> e

\* F of the value v: a local name for a value that is used more than once.
Let(v, F(_)) == F(v)

Min(a, b) == IF a < b THEN a ELSE b
Max(a, b) == IF a > b THEN a ELSE b

(***************************************************************************)
(* Sequences are built from tuples of eight elements at a time, and longer *)
(* ones from two halves: MkSeqFrom(F, k, n) is <<F(k + 1), ..., F(n)>>.    *)
(***************************************************************************)
Chunk(F(_), k, n) ==
  <<F(k + 1),
    IF k + 2 <= n THEN F(k + 2) ELSE 0, IF k + 3 <= n THEN F(k + 3) ELSE 0,
    IF k + 4 <= n THEN F(k + 4) ELSE 0, IF k + 5 <= n THEN F(k + 5) ELSE 0,
    IF k + 6 <= n THEN F(k + 6) ELSE 0, IF k + 7 <= n THEN F(k + 7) ELSE 0,
    IF k + 8 <= n THEN F(k + 8) ELSE 0>>

RECURSIVE MkSeqFrom(_, _, _)
MkSeqFrom(F(_), k, n) ==
  IF n <= k THEN <<>>
  ELSE IF n - k <= 8 THEN SubSeq(Chunk(F, k, n), 1, n - k)
  ELSE Let(k + 8 * ((n - k + 15) \div 16),
           LAMBDA m : MkSeqFrom(F, k, m) \o MkSeqFrom(F, m, n))

MkSeq(F(_), n) == MkSeqFrom(F, 0, n)

(***************************************************************************)
(* JavaScript BigInt: [neg |-> BOOLEAN, mag |-> limbs].  TLC's integers    *)
(* are 32 bits wide, so the magnitude is kept as limbs of four decimal     *)
(* digits, least significant limb first, without high zero limbs (zero is  *)
(* <<0>>); zero is never negative.                                         *)
(***************************************************************************)
Limb(l, i) == IF 1 <= i /\ i <= Len(l) THEN l[i] ELSE 0

TrimLimbs(l) ==
  IF l # <<>> /\ l[Len(l)] # 0 THEN l
  ELSE Let({i \in 1..Len(l) : l[i] # 0},
           LAMBDA nz : IF nz = {} THEN <<0>>
                       ELSE SubSeq(l, 1, CHOOSE i \in nz : \A j \in nz : j <= i))

MkBig(neg, limbs) == [neg |-> neg /\ limbs # <<0>>, mag |-> limbs]

\* A BigInt literal such as 0n, 1n, 10n, and BigInt(number) of a small integer.
Big(n) ==
  LET m == IF n < 0 THEN -n ELSE n
  IN MkBig(n < 0, TrimLimbs(<<m % 10000, (m \div 10000) % 10000, m \div 100000000>>))

Pow10(k) ==
  IF k = 0 THEN 1 ELSE IF k = 1 THEN 10 ELSE IF k = 2 THEN 100
  ELSE IF k = 3 THEN 1000 ELSE 10000

\* The decimal digit of the limbs l at position q, position 0 the lowest.
DigitAt(l, q) == IF q < 0 THEN 0 ELSE (Limb(l, (q \div 4) + 1) \div Pow10(q % 4)) % 10

\* The number of decimal digits of the limbs l (1 for zero).
DigitLen(l) ==
  LET top == l[Len(l)]
  IN 4 * (Len(l) - 1)
     + (IF top >= 1000 THEN 4 ELSE IF top >= 100 THEN 3 ELSE IF top >= 10 THEN 2 ELSE 1)

\* The limbs of floor(l / 10^k), k >= 0: limb j takes the high digits of the
\* limb k \div 4 places up and the low digits of the one above it.
DropDigits(l, k) ==
  TrimLimbs(MkSeq(LAMBDA j : (Limb(l, j + (k \div 4)) \div Pow10(k % 4))
                             + (Limb(l, j + (k \div 4) + 1) % Pow10(k % 4)) * Pow10(4 - (k % 4)),
                  Len(l)))

(***************************************************************************)
(* Carries.  R(1) .. R(n) are limbs before the carries, each of absolute   *)
(* value below 10^8, either none of them negative or none above 9999.  One *)
(* round leaves in every limb its low four digits and what the limb below  *)
(* had above them, a value in 0 .. 19998 or in -9999 .. 9999; the carry    *)
(* into limb i is then 1 when a limb below overflows and every limb        *)
(* between is 9999, and -1 (a borrow) when a limb below is negative and    *)
(* every limb between is 0.  Norm is for a non-negative total.             *)
(***************************************************************************)
Raw(R(_), n, i) == IF 1 <= i /\ i <= n THEN R(i) ELSE 0

Once(R(_), n, i) == (Raw(R, n, i) % 10000) + (Raw(R, n, i - 1) \div 10000)

CarryInto(R(_), n, i) ==
  IF \E j \in 1..(i - 1) :
       Once(R, n, j) >= 10000 /\ \A k \in (j + 1)..(i - 1) : Once(R, n, k) = 9999
    THEN 1
  ELSE IF \E j \in 1..(i - 1) :
       Once(R, n, j) < 0 /\ \A k \in (j + 1)..(i - 1) : Once(R, n, k) = 0
    THEN -1
  ELSE 0

Norm(R(_), n) ==
  TrimLimbs(MkSeq(LAMBDA i : (Once(R, n, i) + CarryInto(R, n, i) + 10000) % 10000, n + 1))

\* Is the total of R(1) .. R(n) non-negative?
NonNeg(R(_), n) == Once(R, n, n + 1) + CarryInto(R, n, n + 1) >= 0

LimbAdd(a, b) ==
  Norm(LAMBDA i : Limb(a, i) + Limb(b, i), IF Len(a) > Len(b) THEN Len(a) ELSE Len(b))

\* a - b for a >= b
LimbSub(a, b) == Norm(LAMBDA i : Limb(a, i) - Limb(b, i), Len(a))

\* a * k for 0 <= k < 10000
LimbMulSmall(a, k) == Norm(LAMBDA i : Limb(a, i) * k, Len(a))

\* a * 10000^n
LimbShift(a, n) == IF a = <<0>> THEN a ELSE MkSeq(LAMBDA i : Limb(a, i - n), Len(a) + n)

\* -1, 0 or 1 as a is below, equal to or above b
LimbCmp(a, b) ==
  IF Len(a) # Len(b) THEN (IF Len(a) < Len(b) THEN -1 ELSE 1)
  ELSE IF a = b THEN 0
  ELSE LET i == CHOOSE k \in 1..Len(a) :
                  a[k] # b[k] /\ \A j \in (k + 1)..Len(a) : a[j] = b[j]
       IN IF a[i] < b[i] THEN -1 ELSE 1

\* The sum of a * b[i] * 10000^(i-1) for the limbs lo..hi of b, in halves.
RECURSIVE LimbMulRange(_, _, _, _)
LimbMulRange(a, b, lo, hi) ==
  IF lo = hi THEN LimbShift(LimbMulSmall(a, b[lo]), lo - 1)
  ELSE LimbAdd(LimbMulRange(a, b, lo, (lo + hi) \div 2),
               LimbMulRange(a, b, ((lo + hi) \div 2) + 1, hi))

LimbMul(a, b) ==
  LimbMulRange(IF Len(a) >= Len(b) THEN a ELSE b, IF Len(a) >= Len(b) THEN b ELSE a,
               1, Min(Len(a), Len(b)))

(***************************************************************************)
(* Schoolbook long division of the limbs n by the limbs d > 0, a decimal   *)
(* digit of n at a time.  The state is <<quotient digits, remainder>>; one *)
(* step brings down a digit of n: with r1 the remainder so far times ten   *)
(* plus the digit, the quotient digit k is the largest with r1 - k d >= 0, *)
(* and that difference is the next remainder.  The steps for the positions *)
(* hi down to lo are taken in two halves, the upper half first, which      *)
(* keeps the evaluation shallow.                                           *)
(***************************************************************************)
DivStep(qr, digit, d) ==
  Let(Norm(LAMBDA i : Limb(qr[2], i) * 10 + (IF i = 1 THEN digit ELSE 0), Len(qr[2])),
      LAMBDA r1 :
        Let(IF Len(r1) < Len(d) THEN 0
            ELSE Cardinality({q \in 1..9 :
                   NonNeg(LAMBDA i : Limb(r1, i) - Limb(d, i) * q, Len(r1))}),
            LAMBDA k :
              <<Append(qr[1], k),
                IF k = 0 THEN r1
                ELSE Norm(LAMBDA i : Limb(r1, i) - Limb(d, i) * k, Len(r1))>>))

RECURSIVE DivRange(_, _, _, _, _)
DivRange(qr, n, d, hi, lo) ==
  IF hi < lo THEN qr
  ELSE IF hi = lo THEN DivStep(qr, DigitAt(n, hi), d)
  ELSE LET mid   == (lo + hi + 1) \div 2
           upper == DivRange(qr, n, d, hi, mid)
       IN After(upper, DivRange(upper, n, d, mid - 1, lo))

\* The limbs of the decimal digits D(1) .. D(len), the most significant first.
LimbsOfFn(D(_), len) ==
  TrimLimbs(MkSeq(LAMBDA j :
                    (IF 4 * j - 4 < len THEN D(len - (4 * j - 4)) ELSE 0)
                    + (IF 4 * j - 3 < len THEN 10 * D(len - (4 * j - 3)) ELSE 0)
                    + (IF 4 * j - 2 < len THEN 100 * D(len - (4 * j - 2)) ELSE 0)
                    + (IF 4 * j - 1 < len THEN 1000 * D(len - (4 * j - 1)) ELSE 0),
                  (len + 3) \div 4))

LimbsOf(digits) == LimbsOfFn(LAMBDA i : digits[i], Len(digits))

\* <<quotient, remainder>> of the limbs n and d > 0.  The highest
\* DigitLen(d) - 1 digits of n are below d: the division starts with them as
\* the remainder.  Dividing by ten drops the last digit.
LimbDivMod(n, d) ==
  IF d = <<10>> THEN <<DropDigits(n, 1), <<n[1] % 10>>>>
  ELSE Let(DigitLen(n) - DigitLen(d),
           LAMBDA e :
             IF e < 0 THEN <<<<0>>, n>>
             ELSE Let(DivRange(<<<<>>, DropDigits(n, e + 1)>>, n, d, e, 0),
                      LAMBDA qr : After(qr, <<LimbsOf(qr[1]), qr[2]>>)))

\* -1, 0, 1: a < 0n, a === 0n, a > 0n
BigSign(a) == IF a.mag = <<0>> THEN 0 ELSE IF a.neg THEN -1 ELSE 1

BigIsZero(a) == a.mag = <<0>>
BigNeg(a) == MkBig(~a.neg, a.mag)

\* The sign of the sum is that of the operand of larger magnitude, which the
\* magnitude of the other is added to or taken from.
BigAdd(a, b) ==
  Let(LimbCmp(a.mag, b.mag) >= 0,
      LAMBDA aTop :
        MkBig(IF aTop THEN a.neg ELSE b.neg,
              Norm(LAMBDA i : IF a.neg = b.neg THEN Limb(a.mag, i) + Limb(b.mag, i)
                              ELSE IF aTop THEN Limb(a.mag, i) - Limb(b.mag, i)
                              ELSE Limb(b.mag, i) - Limb(a.mag, i),
                   Max(Len(a.mag), Len(b.mag)))))

\* A product that takes the sign of its first factor.
BigMulSignOfFirst(a, b) == MkBig(a.neg, LimbMul(a.mag, b.mag))

BigMul(a, b) == MkBig(a.neg # b.neg, LimbMul(a.mag, b.mag))

\* BigInt / and %: the quotient truncates toward zero, the remainder has the
\* sign of the dividend.
BigDivMod(a, b) ==
  Let(LimbDivMod(a.mag, b.mag),
      LAMBDA qr : [quot |-> MkBig(a.neg # b.neg, qr[1]), rem |-> MkBig(a.neg, qr[2])])

BigDiv(a, b) == BigDivMod(a, b).quot
BigMod(a, b) == BigDivMod(a, b).rem

\* -1, 0, 1: the order of two BigInts (the operators <, >, === of the source).
BigCmp(a, b) ==
  IF a.neg # b.neg THEN (IF a.neg THEN -1 ELSE 1)
  ELSE IF a.neg THEN LimbCmp(b.mag, a.mag)
  ELSE LimbCmp(a.mag, b.mag)

(***************************************************************************)
(* JavaScript strings: sequences of one-character strings.                 *)
(***************************************************************************)
DigitChars == <<"0", "1", "2", "3", "4", "5", "6", "7", "8", "9">>
DigitChar(d) == DigitChars[d + 1]
IsDigitChar(c) == \E d \in 0..9 : DigitChars[d + 1] = c
CharDigit(c) == CHOOSE d \in 0..9 : DigitChars[d + 1] = c
Repeat(c, n) == MkSeq(LAMBDA i : c, n)

\* The limbs of a string of digits ("" is zero).
LimbsOfDigits(s) == LimbsOfFn(LAMBDA i : CharDigit(s[i]), Len(s))

\* BigInt.prototype.toString()
BigToString(a) ==
  (IF a.neg THEN <<"-">> ELSE <<>>)
    \o MkSeq(LAMBDA p : DigitChar(DigitAt(a.mag, DigitLen(a.mag) - p)), DigitLen(a.mag))

\* The length of BigInt.prototype.toString(): the digits and the minus sign.
BigStringLen(a) == DigitLen(a.mag) + (IF a.neg THEN 1 ELSE 0)

\* String.prototype.slice(0, -k), k > 0
SliceOffEnd(s, k) == IF Len(s) > k THEN SubSeq(s, 1, Len(s) - k) ELSE <<>>

\* A thrown exception, as the value of the call that threw it.
Throw(msg) == [err |-> msg]
IsErr(r) == "err" \in DOMAIN r

\* BigInt(string): "" is 0n, an optional sign and digits is that integer,
\* anything else (such as "-") throws a SyntaxError.
BigIntOfString(s) ==
  LET body == IF Len(s) > 0 /\ s[1] \in {"-", "+"} THEN Tail(s) ELSE s
  IN IF Len(s) = 0 THEN Big(0)
     ELSE IF Len(body) = 0 \/ \E i \in 1..Len(body) : ~IsDigitChar(body[i])
       THEN Throw("SyntaxError: Cannot convert to a BigInt")
     ELSE MkBig(s[1] = "-", LimbsOfDigits(body))

(***************************************************************************)
(* sign * val of the constructor: val, a string of digits, is converted to *)
(* a Number (an IEEE double), so an integer above 2^53 is rounded to 53    *)
(* significant bits, ties to even; BigInt(number) is then exact.           *)
(***************************************************************************)
\* 2^53 = 9007199254740992
TwoPow53 == <<992, 5474, 1992, 9007>>

\* p = 2^e, e >= 1, is the spacing of the doubles tried for m, and half = p / 2.
RECURSIVE RoundToDouble(_, _, _)
RoundToDouble(m, p, half) ==
  Let(LimbDivMod(m, p),
      LAMBDA qr :
        IF LimbCmp(qr[1], TwoPow53) < 0
        THEN Let(LimbCmp(qr[2], half),
                 LAMBDA c : LimbMul(IF c > 0 \/ (c = 0 /\ qr[1][1] % 2 = 1)
                                      THEN LimbAdd(qr[1], <<1>>) ELSE qr[1],
                                    p))
        ELSE RoundToDouble(m, LimbMulSmall(p, 2), p))

\* The limbs of Number(s) for a string of digits s.
NumberOfDigits(s) ==
  Let(LimbsOfDigits(s),
      LAMBDA m : IF LimbCmp(m, TwoPow53) <= 0 THEN m ELSE RoundToDouble(m, <<2>>, <<1>>))

(***************************************************************************)
(* BigDec: [dp, v, ownSign].  dp and v are the fields of the source;       *)
(* ownSign says that the object carries an own property "sign" (a number), *)
(* which Object.assign copies from the literal abs() passes and which      *)
(* shadows the method BigDec.prototype.sign.                               *)
(***************************************************************************)
FLOAT_PRECISION == 20

\* The end of the constructor: a scale above the ceiling is cut back.
Truncate(dp, v, ownSign) ==
  IF dp > FLOAT_PRECISION THEN
    Let(BigIntOfString(SliceOffEnd(BigToString(v), dp - FLOAT_PRECISION)),
        LAMBDA cut : IF IsErr(cut) THEN cut
                     ELSE [dp |-> FLOAT_PRECISION, v |-> cut, ownSign |-> ownSign])
  ELSE [dp |-> dp, v |-> v, ownSign |-> ownSign]

\* new BigDec({dp, v}) and new BigDec({dp, sign: 1, v})
BigDecObj(dp, v) == Truncate(dp, v, FALSE)
BigDecObjSign(dp, v) == Truncate(dp, v, TRUE)

ZERO == BigDecObj(0, Big(0))

RemoveAll(s, c) == SelectSeq(s, LAMBDA ch : ch # c)

IndexOf(s, c) ==
  IF \E i \in 1..Len(s) : s[i] = c
  THEN (CHOOSE i \in 1..Len(s) : s[i] = c /\ \A j \in 1..(i - 1) : s[j] # c) - 1
  ELSE -1

\* /^-?\d*(\.\d*)?$/
MatchesNotation(s) ==
  LET t == IF Len(s) > 0 /\ s[1] = "-" THEN Tail(s) ELSE s
  IN /\ \A i \in 1..Len(t) : IsDigitChar(t[i]) \/ t[i] = "."
     /\ Cardinality({i \in 1..Len(t) : t[i] = "."}) <= 1

\* The constructor on a string, from the sign on: val is the text after it.
BigDecDigits(neg, val) ==
  Let(IF IndexOf(val, ".") = -1 THEN Len(val) ELSE IndexOf(val, "."),
      LAMBDA decimalPoint :
        Let(SubSeq(val, 1, decimalPoint) \o SubSeq(val, decimalPoint + 2, Len(val)),
            LAMBDA digits :
              Truncate(Len(digits) - decimalPoint, MkBig(neg, NumberOfDigits(digits)), FALSE)))

\* new BigDec(string)
BigDecStr(str) ==
  Let(RemoveAll(str, " "),
      LAMBDA val0 :
        IF val0 = <<>> \/ val0 = <<"0">> THEN ZERO
        ELSE Let(IF val0[1] = "+" THEN Tail(val0) ELSE val0,
                 LAMBDA val1 :
                   IF ~MatchesNotation(val1) THEN Throw("Invalid number notation")
                   ELSE BigDecDigits(Len(val1) > 0 /\ val1[1] = "-",
                                     IF Len(val1) > 0 /\ val1[1] = "-" THEN Tail(val1) ELSE val1)))

(***************************************************************************)
(* BigDec.prototype._simplifyPrecision.  One pass of the while loop drops  *)
(* a trailing zero of v; the loop stops at the first pass that changes     *)
(* nothing, and every pass that does lowers dp, so dp passes are enough.   *)
(* The passes lo .. hi - 1 are run in two halves rather than one after the *)
(* other, which computes the same value with a shallow evaluation.         *)
(***************************************************************************)
simplifyBody(d) ==
  IF d.dp > 0
  THEN Let(BigDivMod(d.v, Big(10)),
           LAMBDA qr : IF BigIsZero(qr.rem)
                       THEN [dp |-> d.dp - 1, v |-> qr.quot, ownSign |-> d.ownSign]
                       ELSE d)
  ELSE d

RECURSIVE simplifyLoop(_, _, _)
simplifyLoop(d, lo, hi) ==
  IF lo >= hi THEN d
  ELSE IF hi - lo = 1 THEN simplifyBody(d)
  ELSE LET mid  == (lo + hi) \div 2
           left == simplifyLoop(d, lo, mid)
       IN IF left = d THEN d ELSE simplifyLoop(left, mid, hi)

simplifyPrecision(d) == simplifyLoop(d, 0, d.dp)

isZero(d) == BigIsZero(d.v)

clone(d) == BigDecObj(d.dp, d.v)

negate(d) == BigDecObj(d.dp, BigNeg(d.v))

digitCount(d) == BigStringLen(d.v)

posDigitCount(d) == digitCount(d) - d.dp

eq(d, dec) == d.v = dec.v /\ d.dp = dec.dp

\* The value a call returns when it is not a BigDec: [ret |-> value].
Ret(value) == [ret |-> value]

\* this.sign(): a TypeError when the own property shadows the method
sign(d) ==
  IF d.ownSign THEN Throw("TypeError: this.sign is not a function")
  ELSE Ret(BigSign(d.v))

cmp(d, dec) ==
  IF eq(d, dec) THEN Ret(0)
  ELSE IF IsErr(sign(d)) THEN sign(d)
  ELSE IF IsErr(sign(dec)) THEN sign(dec)
  ELSE IF sign(d) # sign(dec) THEN Ret(IF sign(d).ret > sign(dec).ret THEN 1 ELSE -1)
  ELSE IF posDigitCount(d) # posDigitCount(dec)
    THEN Ret(IF posDigitCount(d) > posDigitCount(dec) THEN 1 ELSE -1)
  ELSE Ret(IF BigCmp(d.v, dec.v) > 0 THEN 1 ELSE -1)

gt(d, dec) == Let(cmp(d, dec), LAMBDA c : IF IsErr(c) THEN c ELSE Ret(c.ret = 1))

lt(d, dec) == Let(cmp(d, dec), LAMBDA c : IF IsErr(c) THEN c ELSE Ret(c.ret = -1))

\* A shift that raises the scale and leaves the digits of v as they are.
shiftLeftScaleOnly(d, amount) == BigDecObj(d.dp + amount, d.v)

shiftLeft(d, amount) ==
  Let(BigIntOfString(BigToString(d.v) \o Repeat("0", amount)),
      LAMBDA big : IF IsErr(big) THEN big ELSE BigDecObj(d.dp + amount, big))

abs(d) == BigDecObjSign(d.dp, d.v)

add(a0, b0) ==
  Let(IF a0.dp > b0.dp THEN shiftLeft(b0, a0.dp - b0.dp) ELSE b0,
      LAMBDA b :
        IF IsErr(b) THEN b
        ELSE Let(IF b.dp > a0.dp THEN shiftLeft(a0, IF a0.dp > b0.dp THEN a0.dp - b0.dp
                                                      ELSE b0.dp - a0.dp)
                 ELSE a0,
                 LAMBDA a : IF IsErr(a) THEN a ELSE BigDecObj(a.dp, BigAdd(a.v, b.v))))

sub(d, dec) ==
  Let(negate(dec), LAMBDA m : IF IsErr(m) THEN m ELSE add(d, m))

mul(d, dec) == BigDecObj(d.dp + dec.dp, BigMul(d.v, dec.v))

\* /^-?10*$/ on v.toString()
IsPowerOfTen(v) ==
  Let(BigToString(MkBig(FALSE, v.mag)),
      LAMBDA vStr : vStr[1] = "1" /\ \A i \in 2..Len(vStr) : vStr[i] = "0")

(***************************************************************************)
(* The long-division loop of inverse.  Its state is [n, result, done]; one *)
(* pass of the body appends the quotient of n by vUse to result and either *)
(* breaks (done) on a zero remainder or goes on with mod * 10n.  The       *)
(* passes i = lo .. hi - 1 are run in two halves rather than one after the *)
(* other, which computes the same state with a shallow evaluation.         *)
(***************************************************************************)
inverseBody(s, vUse) ==
  Let(BigDivMod(s.n, vUse),
      LAMBDA qr :
        [n      |-> IF BigIsZero(qr.rem) THEN s.n ELSE BigMul(qr.rem, Big(10)),
         result |-> s.result \o BigToString(qr.quot),
         done   |-> BigIsZero(qr.rem)])

RECURSIVE inverseLoop(_, _, _, _)
inverseLoop(s, vUse, lo, hi) ==
  IF s.done \/ lo >= hi THEN s
  ELSE IF hi - lo = 1 THEN inverseBody(s, vUse)
  ELSE LET mid == (lo + hi) \div 2
       IN inverseLoop(inverseLoop(s, vUse, lo, mid), vUse, mid, hi)

\* (this.v > 0n ? "" : "-")
SignText(v) == IF BigSign(v) > 0 THEN <<>> ELSE <<"-">>

\* The object literal {dp, v} that inverse hands to the constructor, for a
\* receiver that is not zero; v is what BigInt threw when it throws.
inverseLiteral(d) ==
  IF IsPowerOfTen(d.v) THEN
    Let(DigitLen(d.v.mag) - 1 - d.dp,
        LAMBDA dp :
          IF dp > 0 THEN [dp |-> dp, v |-> Big(1)]
          ELSE [dp |-> 0,
                v  |-> BigIntOfString(SignText(d.v) \o <<"1">> \o Repeat("0", -dp))])
  ELSE
    Let(inverseLoop([n      |-> BigIntOfString(<<"1">> \o Repeat("0", digitCount(d))),
                     result |-> <<>>,
                     done   |-> FALSE],
                    IF BigSign(d.v) > 0 THEN d.v ELSE BigNeg(d.v), 0, FLOAT_PRECISION),
        LAMBDA loop :
          After(loop, [dp |-> digitCount(d) + Len(loop.result) - 1 - d.dp,
                       v  |-> BigIntOfString(SignText(d.v) \o loop.result)]))

inverse(d) ==
  IF isZero(d) THEN Throw("Can't divide by zero.")
  ELSE Let(inverseLiteral(d),
           LAMBDA o : IF IsErr(o.v) THEN o.v ELSE BigDecObj(o.dp, o.v))

div(d, dec) ==
  Let(inverse(dec),
      LAMBDA inv :
        IF IsErr(inv) THEN inv
        ELSE Let(mul(d, inv),
                 LAMBDA prod : IF IsErr(prod) THEN prod ELSE simplifyPrecision(prod)))

square(d) == mul(d, d)

\* The number 2 that sqrt passes to div, through BigDec(2).
Two == BigDecObj(0, Big(2))

SqrtIterations == 100000

(***************************************************************************)
(* One pass of the Newton loop of sqrt on the receiver d with the current  *)
(* estimate x.  The outcome is [x, done]: done when the pass returns x (dx *)
(* is zero) or a call inside it throws (x is then what was thrown); else x *)
(* is the next estimate.                                                   *)
(***************************************************************************)
sqrtBody(d, x) ==
  Let(div(d, x), LAMBDA a :
    IF IsErr(a) THEN [x |-> a, done |-> TRUE] ELSE
    Let(add(x, a), LAMBDA b :
      IF IsErr(b) THEN [x |-> b, done |-> TRUE] ELSE
      Let(div(b, Two), LAMBDA c :
        IF IsErr(c) THEN [x |-> c, done |-> TRUE] ELSE
        Let(sub(c, x), LAMBDA dx :
          IF IsErr(dx) THEN [x |-> dx, done |-> TRUE]
          ELSE IF isZero(dx) THEN [x |-> x, done |-> TRUE]
          ELSE [x |-> c, done |-> FALSE]))))

\* while (str.endsWith(c)) str = str.substring(0, str.length - 1)
StripTrailing(s, c) ==
  LET keep == {i \in 1..Len(s) : s[i] # c}
  IN IF keep = {} THEN <<>>
     ELSE SubSeq(s, 1, CHOOSE i \in keep : \A j \in keep : j <= i)

\* while (str.startsWith(c)) str = str.substring(1)
StripLeading(s, c) ==
  LET keep == {i \in 1..Len(s) : s[i] # c}
  IN IF keep = {} THEN <<>>
     ELSE SubSeq(s, CHOOSE i \in keep : \A j \in keep : i <= j, Len(s))

\* toString from the decimal point on: str is the digits of v, padded with
\* zeros to the scale.
toStringPoint(d, str) ==
  Let(StripLeading(IF d.dp > 0
                     THEN StripTrailing(SubSeq(str, 1, Len(str) - d.dp) \o <<".">>
                                          \o SubSeq(str, Len(str) - d.dp + 1, Len(str)), "0")
                     ELSE str, "0"),
      LAMBDA s : (IF BigSign(d.v) >= 0 THEN <<>> ELSE <<"-">>)
                   \o (IF Len(s) > 0 /\ s[1] = "." THEN <<"0">> \o s ELSE s))

toString(d) ==
  IF isZero(d) THEN <<"0">>
  ELSE Let(BigToString(d.v),
           LAMBDA str0 :
             Let(IF str0[1] = "-" THEN Tail(str0) ELSE str0,
                 LAMBDA str : toStringPoint(d, IF Len(str) < d.dp
                                                 THEN Repeat("0", d.dp - Len(str)) \o str
                                                 ELSE str)))

(***************************************************************************)
(* The program.  It holds one BigDec, x, made by the constructor from a    *)
(* string, and calls methods on it: a method that returns a BigDec         *)
(* replaces x by what it returned, cmp and toString leave x alone, and a   *)
(* call that throws leaves x alone.  Arguments are BigDecs made from       *)
(* strings.  sqrt is followed through the passes of its loop.              *)
(***************************************************************************)
\* The strings given to the constructor.
Inputs ==
  {<<"0">>,
   <<>>,
   <<"1">>,
   <<"4">>,
   <<"9">>,
   <<"-", "5">>,
   <<"-", "4">>,
   <<"-", "1", "0", "0">>,
   <<"0", ".", "1">>,
   <<"0", ".", "2">>,
   <<"0", ".", "5">>,
   <<"1", ".", "0">>,
   <<"0", ".", "0", "5">>,
   <<"0", ".", "0", "1">>,
   <<"0", ".", "2", "5">>,
   <<"1", ".", "5">>,
   <<"1", ".", "2", "5">>,
   <<"0", ".", "0", "0", "0", "0", "0", "0", "0", "0", "0", "0", "1">>,
   <<"-", "0", ".", "0", "0", "0", "0", "0", "0", "0", "0", "0", "0", "1">>,
   <<"0", ".", "0", "0", "0", "0", "0", "0", "0", "0", "0", "0", "0", "0", "0", "0", "0", "0", "0", "0", "0", "0", "5">>,
   <<"-", "0", ".", "0", "0", "0", "0", "0", "0", "0", "0", "0", "0", "0", "0", "0", "0", "0", "0", "0", "0", "0", "0", "5">>,
   <<"x">>}

\* The strings of the arguments of add, sub, mul, div and cmp.
Operands ==
  {<<"0">>,
   <<"4">>,
   <<"-", "4">>,
   <<"0", ".", "2">>,
   <<"0", ".", "5">>,
   <<"1", ".", "2", "5">>,
   <<"0", ".", "0", "0", "0", "0", "0", "0", "0", "0", "0", "0", "1">>}

\* The strings whose square root is taken.
SqrtInputs ==
  {<<"0">>,
   <<"1">>,
   <<"4">>,
   <<"9">>,
   <<"0", ".", "0", "1">>,
   <<"0", ".", "2", "5">>,
   <<"-", "4">>}

MaxCalls == 3

Nil == [nil |-> TRUE]

VARIABLES
  x,      \* the BigDec the program holds
  made,   \* the methods that made x out of the BigDec of its string
  last,   \* the last call that returned or threw: [op, this, arg, res]
  calls,  \* the number of calls made
  pc,     \* "idle", or "sqrt" inside the loop of sqrt
  est,    \* inside the loop of sqrt: [x, i], the estimate and the pass
  heap,   \* the BigDec objects made so far, by reference; heap[1] is ZERO
  nums,   \* the BigNum objects made so far, by reference: [re, im]
  held    \* what the caller was handed, as it was then: [dec, num]

vars == <<x, made, last, calls, pc, est, heap, nums, held>>

\* The objects of a program that handles its BigDecs by value only.
NoObjects ==
  /\ heap = <<ZERO>>
  /\ nums = <<>>
  /\ held = [dec |-> <<>>, num |-> <<>>]

Init ==
  /\ x = ZERO
  /\ made = {}
  /\ last = [op |-> "ZERO", this |-> Nil, arg |-> Nil, res |-> ZERO]
  /\ calls = 0
  /\ pc = "idle"
  /\ est = Nil
  /\ NoObjects

\* A call op on this with arg returned or threw res; a BigDec res becomes x.
Return(op, this, arg, res, keeps) ==
  /\ last' = [op |-> op, this |-> this, arg |-> arg, res |-> res]
  /\ x' = IF keeps \/ IsErr(res) THEN x ELSE res
  /\ made' = IF keeps \/ IsErr(res) THEN made
             ELSE IF op = "BigDec" THEN {} ELSE made \cup {op}
  /\ pc' = "idle"
  /\ est' = Nil

Call ==
  /\ pc = "idle"
  /\ calls < MaxCalls
  /\ calls' = calls + 1
  /\ UNCHANGED <<heap, nums, held>>

\* x = new BigDec(str)
Parse(str) ==
  /\ Call
  /\ Return("BigDec", Nil, [str |-> str], BigDecStr(str), FALSE)

Negate ==
  /\ Call
  /\ Return("negate", x, Nil, negate(x), FALSE)

Abs ==
  /\ Call
  /\ Return("abs", x, Nil, abs(x), FALSE)

Inverse ==
  /\ Call
  /\ Return("inverse", x, Nil, inverse(x), FALSE)

\* x.op(str): the method converts its argument with BigDec(str), and what
\* that throws is what the call throws; F is the rest of the method.
Method(op, arg, F(_), keeps) ==
  /\ Call
  /\ Return(op, x, arg, IF IsErr(arg) THEN arg ELSE F(arg), keeps)

Add(str) == Method("add", BigDecStr(str), LAMBDA b : add(x, b), FALSE)

Sub(str) == Method("sub", BigDecStr(str), LAMBDA dec : sub(x, dec), FALSE)

Mul(str) == Method("mul", BigDecStr(str), LAMBDA dec : mul(x, dec), FALSE)

Div(str) == Method("div", BigDecStr(str), LAMBDA dec : div(x, dec), FALSE)

Cmp(str) == Method("cmp", BigDecStr(str), LAMBDA dec : cmp(x, dec), TRUE)

ToStringCall ==
  /\ Call
  /\ Return("toString", x, Nil, [str |-> toString(x)], TRUE)

\* The loop of sqrt is entered with the first estimate x0, unless the
\* division that makes it threw.
SqrtEnter(x0) ==
  IF IsErr(x0) THEN Return("sqrt", x, Nil, x0, FALSE)
  ELSE /\ pc' = "sqrt"
       /\ est' = [x |-> x0, i |-> 0]
       /\ UNCHANGED <<x, made, last>>

\* sqrt up to its loop: the two early exits, then the first estimate.
SqrtCall ==
  /\ Call
  /\ last.op = "BigDec" /\ last.arg.str \in SqrtInputs /\ ~IsErr(last.res)
  /\ IF BigSign(x.v) < 0
       THEN Return("sqrt", x, Nil,
                   Throw("Can't take the square root of a negative number in the real world."),
                   FALSE)
     ELSE IF x.v = Big(0) \/ x.v = Big(1) THEN Return("sqrt", x, Nil, x, FALSE)
     ELSE SqrtEnter(div(x, Two))

\* The end of a pass of the loop of sqrt with the outcome s of its body.
SqrtLeave(s) ==
  IF s.done \/ est.i + 1 >= SqrtIterations
    THEN Return("sqrt", x, Nil, s.x, FALSE)
  ELSE /\ est' = [x |-> s.x, i |-> est.i + 1]
       /\ UNCHANGED <<x, made, last, pc>>

\* One pass of the loop of sqrt, and the return after the last pass.
SqrtPass ==
  /\ pc = "sqrt"
  /\ SqrtLeave(sqrtBody(x, est.x))
  /\ UNCHANGED <<calls, heap, nums, held>>

Next ==
  \/ \E str \in Inputs : Parse(str)
  \/ Negate
  \/ Abs
  \/ Inverse
  \/ \E str \in Operands : Add(str)
  \/ \E str \in Operands : Sub(str)
  \/ \E str \in Operands : Mul(str)
  \/ \E str \in Operands : Div(str)
  \/ \E str \in Operands : Cmp(str)
  \/ ToStringCall
  \/ SqrtCall
  \/ SqrtPass

Spec == Init /\ [][Next]_vars

(***************************************************************************)
(* The same methods on objects.  A BigDec is a reference into heap, and a  *)
(* method takes the heap h and references and gives [h, ref], the heap     *)
(* after the call and the reference it returns, or [h, err] when it        *)
(* throws.  The values are those of the methods above, read from the heap  *)
(* at the time of the call.                                                *)
(***************************************************************************)
\* The rest F of a method after a call that gave r, unless r was thrown.
Then(r, F(_)) == IF IsErr(r) THEN r ELSE F(r)

\* new BigDec({dp, v}), d being what the constructor makes of {dp, v}: val
\* is no BigDec, so a new object takes its fields and is truncated itself.
NewBigDec(h, d) ==
  IF IsErr(d) THEN [h |-> h, err |-> d.err]
  ELSE [h |-> Append(h, d), ref |-> Len(h) + 1]

\* BigDec(str) and new BigDec(str): "" and "0" give the ZERO object.
BigDecRef(h, str) ==
  IF RemoveAll(str, " ") \in {<<>>, <<"0">>} THEN [h |-> h, ref |-> 1]
  ELSE NewBigDec(h, BigDecStr(str))

\* this._simplifyPrecision() assigns to the dp and v of this.
simplifyPrecisionRef(h, this) ==
  [h |-> [h EXCEPT ![this] = simplifyPrecision(h[this])], ref |-> this]

cloneRef(h, this) == NewBigDec(h, clone(h[this]))

negateRef(h, this) == NewBigDec(h, negate(h[this]))

absRef(h, this) == NewBigDec(h, abs(h[this]))

\* a or b is replaced by a new shifted object when the scales differ, and
\* the sum is a new object.
addRef(h, this, b) ==
  Then(IF h[this].dp > h[b].dp
         THEN NewBigDec(h, shiftLeft(h[b], h[this].dp - h[b].dp))
       ELSE IF h[b].dp > h[this].dp
         THEN NewBigDec(h, shiftLeft(h[this], h[b].dp - h[this].dp))
       ELSE [h |-> h, ref |-> this],
       LAMBDA s : NewBigDec(s.h, add(h[this], h[b])))

subRef(h, this, dec) ==
  Then(negateRef(h, dec), LAMBDA n : addRef(n.h, this, n.ref))

\* A product that is written onto this and returned as this.
mulOntoThis(h, this, dec) ==
  IF IsErr(mul(h[this], h[dec])) THEN [h |-> h, err |-> mul(h[this], h[dec]).err]
  ELSE [h |-> [h EXCEPT ![this] = mul(h[this], h[dec])], ref |-> this]

mulRef(h, this, dec) == NewBigDec(h, mul(h[this], h[dec]))

inverseRef(h, this) == NewBigDec(h, inverse(h[this]))

\* this.mul(dec.inverse())._simplifyPrecision(): the product is simplified
\* in place.
divRef(h, this, dec) ==
  Then(inverseRef(h, dec), LAMBDA i :
    Then(mulRef(i.h, this, i.ref), LAMBDA m :
      simplifyPrecisionRef(m.h, m.ref)))

squareRef(h, this) == mulRef(h, this, this)

\* this.div(2), and the same with any other number written as str
divByNumber(h, this, str) ==
  Then(BigDecRef(h, str), LAMBDA n : divRef(n.h, this, n.ref))

\* The loop of sqrt from pass i on, with the estimate xi.
RECURSIVE sqrtLoop(_, _, _, _)
sqrtLoop(h, this, xi, i) ==
  IF i >= SqrtIterations THEN [h |-> h, ref |-> xi]
  ELSE Then(divRef(h, this, xi), LAMBDA a :
         Then(addRef(a.h, xi, a.ref), LAMBDA b :
           Then(divByNumber(b.h, b.ref, <<"2">>), LAMBDA c :
             Then(subRef(c.h, c.ref, xi), LAMBDA dx :
               IF isZero(dx.h[dx.ref]) THEN [h |-> dx.h, ref |-> xi]
               ELSE sqrtLoop(dx.h, this, c.ref, i + 1)))))

sqrtRef(h, this) ==
  IF BigSign(h[this].v) < 0
    THEN [h |-> h,
          err |-> "Can't take the square root of a negative number in the real world."]
  ELSE IF h[this].v = Big(0) \/ h[this].v = Big(1) THEN [h |-> h, ref |-> this]
  ELSE Then(divByNumber(h, this, <<"2">>), LAMBDA d : sqrtLoop(d.h, this, d.ref, 0))

(***************************************************************************)
(* BigNum.  A BigNum is a reference into the sequence n of [re, im], two   *)
(* references to BigDecs; its methods take h and n and give [h, n, num]    *)
(* with the BigNum they return, [h, n, ref] when they return a BigDec, or  *)
(* [h, err].  The strings given to the constructor are decimal notations,  *)
(* none of them the "a+bi" notation that the constructor splits.           *)
(***************************************************************************)
\* new BigNum(re, im) on two BigDecs: BigDec(re) and BigDec(im) are re and
\* im themselves.
NewBigNum(h, n, re, im) ==
  [h |-> h, n |-> Append(n, [re |-> re, im |-> im]), num |-> Len(n) + 1]

\* new BigNum of the BigDecs that Re and then Im return.
NewBigNumOf(h, n, Re(_), Im(_)) ==
  Then(Re(h), LAMBDA a :
    Then(Im(a.h), LAMBDA b : NewBigNum(b.h, n, a.ref, b.ref)))

\* new BigNum(re, im) on two strings
BigNumStr(h, n, re, im) ==
  NewBigNumOf(h, n, LAMBDA g : BigDecRef(g, re), LAMBDA g : BigDecRef(g, im))

numClone(h, n, this) ==
  NewBigNumOf(h, n, LAMBDA g : cloneRef(g, n[this].re),
                    LAMBDA g : cloneRef(g, n[this].im))

numNegate(h, n, this) ==
  NewBigNumOf(h, n, LAMBDA g : negateRef(g, n[this].re),
                    LAMBDA g : negateRef(g, n[this].im))

numAdd(h, n, this, num) ==
  NewBigNumOf(h, n, LAMBDA g : addRef(g, n[this].re, n[num].re),
                    LAMBDA g : addRef(g, n[this].im, n[num].im))

numSub(h, n, this, num) ==
  NewBigNumOf(h, n, LAMBDA g : subRef(g, n[this].re, n[num].re),
                    LAMBDA g : subRef(g, n[this].im, n[num].im))

\* a.mul(b) and then c.mul(d), for the two products of a component
TwoProducts(h, a, b, c, d, F(_, _)) ==
  Then(mulRef(h, a, b), LAMBDA p :
    Then(mulRef(p.h, c, d), LAMBDA q : F(q.h, <<p.ref, q.ref>>)))

numMul(h, n, this, num) ==
  NewBigNumOf(h, n,
    LAMBDA g : TwoProducts(g, n[this].re, n[num].re, n[this].im, n[num].im,
                           LAMBDA k, pq : subRef(k, pq[1], pq[2])),
    LAMBDA g : TwoProducts(g, n[this].re, n[num].im, n[this].im, n[num].re,
                           LAMBDA k, pq : addRef(k, pq[1], pq[2])))

\* this.re.square().add(this.im.square())
sumOfSquares(h, n, this) ==
  TwoProducts(h, n[this].re, n[this].re, n[this].im, n[this].im,
              LAMBDA k, pq : addRef(k, pq[1], pq[2]))

numInverse(h, n, this) ==
  Then(sumOfSquares(h, n, this), LAMBDA bottom :
    NewBigNumOf(bottom.h, n,
      LAMBDA g : divRef(g, n[this].re, bottom.ref),
      LAMBDA g : Then(divRef(g, n[this].im, bottom.ref),
                      LAMBDA q : negateRef(q.h, q.ref))))

numDiv(h, n, this, num) ==
  Then(numInverse(h, n, num), LAMBDA i : numMul(i.h, i.n, this, i.num))

\* new BigNum(this.im) has the default "0" as its im, which is ZERO.
numAbs(h, n, this) ==
  IF isZero(h[n[this].re]) THEN [h |-> h, n |-> n, num |-> this]
  ELSE IF isZero(h[n[this].im]) THEN NewBigNum(h, n, n[this].im, 1)
  ELSE Then(Then(sumOfSquares(h, n, this), LAMBDA s : sqrtRef(s.h, s.ref)),
            LAMBDA r : [h |-> r.h, n |-> n, ref |-> r.ref])

\* this.cmp(dec) and this.toString() assign nothing.
cmpRef(h, this, dec) == [h |-> h, val |-> cmp(h[this], h[dec])]

toStringRef(h, this) == [h |-> h, val |-> [str |-> toString(h[this])]]

(***************************************************************************)
(* A program that keeps every BigDec and BigNum it was ever handed, and    *)
(* calls the methods on any of them, and with any of them as argument.     *)
(* held records each object as it was when the program was first handed    *)
(* it; a BigNum hands over its re and im with itself.                      *)
(***************************************************************************)
\* The strings given to the constructors.
ObjectInputs == {<<"0">>, <<"1">>, <<"3">>, <<"-", "4">>, <<"0", ".", "5">>}

\* The BigDecs <<dp, digits of v>> on which sqrt is called past its early
\* exits: on each of them the loop of sqrt ends within a few passes.
SqrtReceivers ==
  {<<0, <<"3">>>>, <<0, <<"2", "5">>>>, <<2, <<"5", "0">>>>}

MaxObjectCalls == 2

\* sqrt ends on d at once or within a few passes.
SqrtEnds(d) ==
  \/ IsErr(d)
  \/ BigSign(d.v) < 0
  \/ d.v \in {Big(0), Big(1)}
  \/ <<d.dp, BigToString(d.v)>> \in SqrtReceivers

\* held after a call that gave r
Hold(r) ==
  IF IsErr(r) THEN held
  ELSE IF "num" \in DOMAIN r
    THEN [dec |-> held.dec @@ (r.n[r.num].re :> r.h[r.n[r.num].re])
                           @@ (r.n[r.num].im :> r.h[r.n[r.num].im]),
          num |-> held.num @@ (r.num :> r.n[r.num])]
  ELSE IF "ref" \in DOMAIN r
    THEN [held EXCEPT !.dec = @ @@ (r.ref :> r.h[r.ref])]
  ELSE held

\* what a call that gave r returned or threw
Outcome(r) ==
  IF IsErr(r) THEN Throw(r.err)
  ELSE IF "num" \in DOMAIN r THEN [num |-> r.num]
  ELSE IF "ref" \in DOMAIN r THEN [ref |-> r.ref]
  ELSE r.val

\* A call op on this with arg gave r.
Handed(op, this, arg, r) ==
  /\ calls < MaxObjectCalls
  /\ calls' = calls + 1
  /\ heap' = r.h
  /\ nums' = IF "n" \in DOMAIN r THEN r.n ELSE nums
  /\ held' = Hold(r)
  /\ last' = [op |-> op, this |-> this, arg |-> arg, res |-> Outcome(r)]
  /\ UNCHANGED <<x, made, pc, est>>

RefNew(str) == Handed("new BigDec", Nil, [str |-> str], BigDecRef(heap, str))

RefClone(this) == Handed("BigDec.clone", [ref |-> this], Nil, cloneRef(heap, this))

RefNegate(this) == Handed("BigDec.negate", [ref |-> this], Nil, negateRef(heap, this))

RefAbs(this) == Handed("BigDec.abs", [ref |-> this], Nil, absRef(heap, this))

RefInverse(this) == Handed("BigDec.inverse", [ref |-> this], Nil, inverseRef(heap, this))

RefSquare(this) == Handed("BigDec.square", [ref |-> this], Nil, squareRef(heap, this))

RefSqrt(this) ==
  /\ SqrtEnds(heap[this])
  /\ Handed("BigDec.sqrt", [ref |-> this], Nil, sqrtRef(heap, this))

RefToString(this) ==
  Handed("BigDec.toString", [ref |-> this], Nil, toStringRef(heap, this))

RefAdd(this, b) == Handed("BigDec.add", [ref |-> this], [ref |-> b], addRef(heap, this, b))

RefSub(this, dec) ==
  Handed("BigDec.sub", [ref |-> this], [ref |-> dec], subRef(heap, this, dec))

RefMul(this, dec) ==
  Handed("BigDec.mul", [ref |-> this], [ref |-> dec], mulRef(heap, this, dec))

RefDiv(this, dec) ==
  Handed("BigDec.div", [ref |-> this], [ref |-> dec], divRef(heap, this, dec))

RefCmp(this, dec) ==
  Handed("BigDec.cmp", [ref |-> this], [ref |-> dec], cmpRef(heap, this, dec))

BigNumNew(re, im) ==
  Handed("new BigNum", Nil, [re |-> re, im |-> im], BigNumStr(heap, nums, re, im))

BigNumClone(this) ==
  Handed("BigNum.clone", [num |-> this], Nil, numClone(heap, nums, this))

BigNumNegate(this) ==
  Handed("BigNum.negate", [num |-> this], Nil, numNegate(heap, nums, this))

BigNumAdd(this, num) ==
  Handed("BigNum.add", [num |-> this], [num |-> num], numAdd(heap, nums, this, num))

BigNumSub(this, num) ==
  Handed("BigNum.sub", [num |-> this], [num |-> num], numSub(heap, nums, this, num))

BigNumMul(this, num) ==
  Handed("BigNum.mul", [num |-> this], [num |-> num], numMul(heap, nums, this, num))

BigNumInverse(this) ==
  Handed("BigNum.inverse", [num |-> this], Nil, numInverse(heap, nums, this))

BigNumDiv(this, num) ==
  Handed("BigNum.div", [num |-> this], [num |-> num], numDiv(heap, nums, this, num))

\* abs is called where the sqrt it may call ends.
BigNumAbs(this) ==
  /\ \/ isZero(heap[nums[this].re])
     \/ isZero(heap[nums[this].im])
     \/ SqrtEnds(add(square(heap[nums[this].re]), square(heap[nums[this].im])))
  /\ Handed("BigNum.abs", [num |-> this], Nil, numAbs(heap, nums, this))

ObjectNext ==
  \/ \E str \in ObjectInputs : RefNew(str)
  \/ \E this \in DOMAIN held.dec : RefClone(this)
  \/ \E this \in DOMAIN held.dec : RefNegate(this)
  \/ \E this \in DOMAIN held.dec : RefAbs(this)
  \/ \E this \in DOMAIN held.dec : RefInverse(this)
  \/ \E this \in DOMAIN held.dec : RefSquare(this)
  \/ \E this \in DOMAIN held.dec : RefSqrt(this)
  \/ \E this \in DOMAIN held.dec : RefToString(this)
  \/ \E this, dec \in DOMAIN held.dec : RefAdd(this, dec)
  \/ \E this, dec \in DOMAIN held.dec : RefSub(this, dec)
  \/ \E this, dec \in DOMAIN held.dec : RefMul(this, dec)
  \/ \E this, dec \in DOMAIN held.dec : RefDiv(this, dec)
  \/ \E this, dec \in DOMAIN held.dec : RefCmp(this, dec)
  \/ \E re, im \in ObjectInputs : BigNumNew(re, im)
  \/ \E this \in DOMAIN held.num : BigNumClone(this)
  \/ \E this \in DOMAIN held.num : BigNumNegate(this)
  \/ \E this \in DOMAIN held.num : BigNumInverse(this)
  \/ \E this \in DOMAIN held.num : BigNumAbs(this)
  \/ \E this, num \in DOMAIN held.num : BigNumAdd(this, num)
  \/ \E this, num \in DOMAIN held.num : BigNumSub(this, num)
  \/ \E this, num \in DOMAIN held.num : BigNumMul(this, num)
  \/ \E this, num \in DOMAIN held.num : BigNumDiv(this, num)

ObjectSpec == Init /\ [][ObjectNext]_vars

(***************************************************************************)
(* Dec, the decimal kept as an array of limbs.  A Dec is [dp, sign, v,     *)
(* number]: v is the array of limbs, the most significant first, and       *)
(* number tells that the limbs are Numbers rather than BigInts, which is   *)
(* so for the limb of ZERO and of its copies only.  INT_DIGITS is 1: the   *)
(* constructor makes one limb of every digit.                              *)
(***************************************************************************)
INT_DIGITS == 1
MAX_INT == Pow10(INT_DIGITS) - 1
MAX_INT_BASE == Pow10(INT_DIGITS - 1)

\* The limbs of v without those that _collectGarbage shifts off: the first
\* limbs that are not above zero, but for the last limb.
RECURSIVE collectGarbage(_)
collectGarbage(v) ==
  IF Len(v) <= 1 THEN v
  ELSE IF v[1] > 0 THEN v
  ELSE collectGarbage(Tail(v))

\* Dec({dp, sign, v}): Object.assign and _collectGarbage
DecObj(dp, sgn, v, number) ==
  [dp |-> dp, sign |-> sgn, v |-> collectGarbage(v), number |-> number]

\* const ZERO = Dec({dp: 0, sign: 1, v: [0]}), its limb the Number 0
DecZERO == DecObj(0, 1, <<0>>, TRUE)

\* v.length > 1 && !v[0]: v.shift()
DecShiftOnce(v) == IF Len(v) > 1 /\ v[1] = 0 THEN Tail(v) ELSE v

\* Dec(string), from the sign on: val is the text after it.
DecDigits(sgn, val) ==
  Let(IF IndexOf(val, ".") = -1 THEN Len(val) ELSE IndexOf(val, "."),
      LAMBDA decimalPoint :
        Let(SubSeq(val, 1, decimalPoint) \o SubSeq(val, decimalPoint + 2, Len(val)),
            LAMBDA digits :
              [dp |-> Len(digits) - decimalPoint,
               sign |-> sgn,
               v |-> DecShiftOnce(MkSeq(LAMBDA j : CharDigit(digits[j]), Len(digits))),
               number |-> FALSE]))

\* Dec(string)
DecStr(val0) ==
  IF val0 = <<>> \/ val0 = <<"0">> THEN DecZERO
  ELSE Let(IF val0[1] = "+" THEN Tail(val0) ELSE val0,
           LAMBDA val1 :
             IF ~MatchesNotation(val1) THEN Throw("Invalid number notation")
             ELSE DecDigits(IF Len(val1) > 0 /\ val1[1] = "-" THEN -1 ELSE 1,
                            IF Len(val1) > 0 /\ val1[1] = "-" THEN Tail(val1) ELSE val1))

\* Number.prototype.toString() of an integer n >= 0
RECURSIVE NatText(_)
NatText(n) == IF n < 10 THEN <<DigitChar(n)>> ELSE NatText(n \div 10) \o <<DigitChar(n % 10)>>

\* toString() of a limb
LimbText(n) == IF n < 0 THEN <<"-">> \o NatText(0 - n) ELSE NatText(n)

\* Dec(n) on the number n >= 0
DecNum(n) == DecStr(NatText(n))

DecIsZero(d) == \A i \in 1..Len(d.v) : ~(d.v[i] > 0)

DecClone(d) == DecObj(d.dp, d.sign, d.v, d.number)

DecNegate(d) == [DecClone(d) EXCEPT !.sign = 0 - @]

DecAbs(d) == DecObj(d.dp, 1, d.v, d.number)

RECURSIVE DecDigitCountFrom(_, _)
DecDigitCountFrom(d, i) ==
  IF i > Len(d.v) THEN 0 ELSE Len(LimbText(d.v[i])) + DecDigitCountFrom(d, i + 1)

DecDigitCount(d) == DecDigitCountFrom(d, 1)

DecPosDigitCount(d) == DecDigitCount(d) - d.dp

\* === on two limbs holds for equal limbs of the same type only.
DecEq(this, dec) ==
  /\ Len(dec.v) = Len(this.v)
  /\ dec.dp = this.dp
  /\ \A k \in 1..Len(dec.v) : dec.v[k] = this.v[k] /\ dec.number = this.number

\* cmp returns 1, 0, -1, or nothing (Nil) where the code ends on its todo.
DecCmp(this, dec) ==
  IF DecEq(this, dec) THEN Ret(0)
  ELSE IF this.sign # dec.sign THEN Ret(IF this.sign > dec.sign THEN 1 ELSE -1)
  ELSE IF DecPosDigitCount(this) # DecPosDigitCount(dec)
    THEN Ret(IF DecPosDigitCount(this) > DecPosDigitCount(dec) THEN 1 ELSE -1)
  ELSE Nil

DecLt(this, dec) == DecCmp(this, dec) = Ret(-1)

\* _shiftLeft on limbs of one digit each: the digits move up by one place,
\* into a new first limb when the first limb is not zero.  The limbs it
\* makes are BigInts.
RECURSIVE DecShiftLeft(_, _)
DecShiftLeft(d, len) ==
  IF len <= 0 THEN d
  ELSE DecShiftLeft([d EXCEPT !.v = IF d.v[1] >= MAX_INT_BASE THEN d.v \o <<0>>
                                    ELSE Tail(d.v) \o <<0>>,
                              !.number = FALSE],
                    len - 1)

(***************************************************************************)
(* Dec._overflowDigit(v, i).  It changes v and returns 1 or -1: the result *)
(* is [v, ret].  i is the index of the code, which counts from 0; what the *)
(* calls it makes on itself return is dropped.                             *)
(***************************************************************************)
RECURSIVE overflowDigit(_, _)
overflowDigit(v, i) ==
  IF v[i + 1] > MAX_INT
    THEN Let(IF i = 0 THEN <<1>> \o v
             ELSE overflowDigit([v EXCEPT ![i] = @ + 1], i - 1).v,
             LAMBDA w :
               [v |-> overflowDigit([w EXCEPT ![i + 1] = @ - (MAX_INT + 1)], i).v,
                ret |-> 1])
  ELSE IF v[i + 1] < 0
    THEN IF \A k \in 1..i : v[k] = 0
           THEN [v |-> [v EXCEPT ![i + 1] = 0 - @], ret |-> -1]
         ELSE Let(overflowDigit([v EXCEPT ![i] = @ - 1, ![i + 1] = @ + MAX_INT + 1],
                                i - 1).v,
                  LAMBDA w : [v |-> overflowDigit(w, i).v, ret |-> 1])
  ELSE [v |-> v, ret |-> 1]

\* for (let i = from; i < vLen - 1; i++) sign *= Dec._overflowDigit(v, vLen - i)
RECURSIVE overflowLoop(_, _, _, _)
overflowLoop(v, sgn, from, vLen) ==
  IF from >= vLen - 1 THEN [v |-> v, sign |-> sgn]
  ELSE Let(overflowDigit(v, vLen - from),
           LAMBDA o : overflowLoop(o.v, sgn * o.ret, from + 1, vLen))

\* a.v[a.v.length - i - 1] ?? 0n
LimbFromEnd(d, i) == IF i < Len(d.v) THEN d.v[Len(d.v) - i] ELSE 0

\* add from the sums on: v has the indices 0 .. vLen of the code, the sums
\* at 2 .. vLen, and a BigInt and a Number do not add.
DecAddLimbs(a, b, opSign) ==
  Let(Max(Len(a.v), Len(b.v)) + 1, LAMBDA vLen :
    IF (a.number /\ Len(a.v) > 0) \/ (b.number /\ Len(b.v) > 0)
      THEN Throw("TypeError: Cannot mix BigInt and other types, use explicit conversions")
    ELSE Let(overflowLoop(MkSeq(LAMBDA j : IF j <= 2 THEN 0
                                           ELSE LimbFromEnd(a, vLen + 1 - j)
                                                  + opSign * LimbFromEnd(b, vLen + 1 - j),
                                vLen + 1),
                          a.sign, 0, vLen),
             LAMBDA r : DecObj(a.dp, r.sign, r.v, FALSE)))

\* add from the swap on: the operand with the smaller dp is replaced by a
\* shifted copy, which keeps its dp.
DecAddAligned(a, b, opSign) ==
  DecAddLimbs(IF b.dp > a.dp THEN DecShiftLeft(DecClone(a), b.dp - a.dp) ELSE a,
              IF a.dp > b.dp THEN DecShiftLeft(DecClone(b), a.dp - b.dp) ELSE b,
              opSign)

DecAdd(this, b) ==
  IF this.sign * b.sign = -1 /\ DecLt(DecAbs(this), b)
    THEN DecAddAligned(b, this, this.sign * b.sign)
  ELSE DecAddAligned(this, b, this.sign * b.sign)

DecSub(this, dec) == DecAdd(this, DecNegate(dec))

\* The limbs as text, each padded to INT_DIGITS.
RECURSIVE DecLimbsText(_, _)
DecLimbsText(v, i) ==
  IF i > Len(v) THEN <<>>
  ELSE Repeat("0", INT_DIGITS - Len(LimbText(v[i]))) \o LimbText(v[i])
         \o DecLimbsText(v, i + 1)

\* toString from the decimal point on: str is the limbs as text, padded
\* with zeros to the scale.
DecToStringPoint(d, str) ==
  Let(StripLeading(IF d.dp > 0
                     THEN StripTrailing(SubSeq(str, 1, Len(str) - d.dp) \o <<".">>
                                          \o SubSeq(str, Len(str) - d.dp + 1, Len(str)), "0")
                     ELSE str, "0"),
      LAMBDA t : (IF d.sign = 1 THEN <<>> ELSE <<"-">>)
                   \o (IF Len(t) > 0 /\ t[1] = "." THEN <<"0">> \o t ELSE t))

DecToString(d) ==
  IF DecIsZero(d) THEN <<"0">>
  ELSE Let(DecLimbsText(d.v, 1),
           LAMBDA str : DecToStringPoint(d, IF Len(str) < d.dp
                                              THEN Repeat("0", d.dp - Len(str)) \o str
                                              ELSE str))

(***************************************************************************)
(* A program that calls Dec(a).sub(b) and Dec(a).add(b) on two numbers a   *)
(* and b from 0 up to MaxOperand.                                          *)
(***************************************************************************)
MaxOperand == 12

\* Dec(a).sub(b): dec = Dec(b) at the head of sub
DecSubCall(a, b) ==
  /\ last' = [op |-> "Dec.sub", this |-> a, arg |-> b,
              res |-> DecSub(DecNum(a), DecNum(b))]
  /\ UNCHANGED <<x, made, calls, pc, est, heap, nums, held>>

\* Dec(a).add(b): b = Dec(b) at the head of add
DecAddCall(a, b) ==
  /\ last' = [op |-> "Dec.add", this |-> a, arg |-> b,
              res |-> DecAdd(DecNum(a), DecNum(b))]
  /\ UNCHANGED <<x, made, calls, pc, est, heap, nums, held>>

DecNext ==
  \/ \E a, b \in 0..MaxOperand : DecSubCall(a, b)
  \/ \E a, b \in 0..MaxOperand : DecAddCall(a, b)

DecSpec == Init /\ [][DecNext]_vars

(***************************************************************************)
(* The numeric value of a BigDec d is d.v / 10^d.dp.  Values are compared  *)
(* as integers, after multiplying them by a power of ten that clears every *)
(* scale involved.                                                         *)
(***************************************************************************)
\* 10^k as a BigInt, k >= 0
BigPow10(k) == MkBig(FALSE, LimbShift(<<Pow10(k % 4)>>, k \div 4))

\* value(d) * 10^s, for s >= d.dp
Scaled(d, s) == BigMul(d.v, BigPow10(s - d.dp))

\* -1, 0, 1: value(a) is below, equal to, above value(b)
ValueCmp(a, b) ==
  Let(Max(a.dp, b.dp), LAMBDA s : BigCmp(Scaled(a, s), Scaled(b, s)))

\* value(a) + value(b) = value(r)
IsSum(a, b, r) ==
  Let(Max(Max(a.dp, b.dp), r.dp),
      LAMBDA s : BigAdd(Scaled(a, s), Scaled(b, s)) = Scaled(r, s))

\* value(a) * value(b) = 1
IsOne(a, b) ==
  BigMul(BigMul(a.v, b.v), BigPow10(Max(0, 0 - (a.dp + b.dp))))
    = BigPow10(Max(0, a.dp + b.dp))

\* C1: add and sub are exact.  A sum has the larger of the two scales and
\* the value value(x) + value(y); x.sub(y) is x.add(y.negate()) and has the
\* value value(x) - value(y); x.add(ZERO) has the value of x, and is eq to x
\* for a scale that is not negative; x.add(x.negate()) is zero; and the sum
\* of the BigDecs of "0.1" and "0.2" renders "0.3".
C1_AddSubExact ==
  /\ last.op = "add" =>
        /\ ~IsErr(last.res)
        /\ last.res.dp = Max(last.this.dp, last.arg.dp)
        /\ IsSum(last.this, last.arg, last.res)
  /\ last.op = "sub" =>
        /\ ~IsErr(last.res)
        /\ last.res = add(last.this, negate(last.arg))
        /\ last.res.dp = Max(last.this.dp, last.arg.dp)
        /\ IsSum(last.res, last.arg, last.this)
  /\ ~IsErr(add(x, ZERO))
  /\ ValueCmp(add(x, ZERO), x) = 0
  /\ x.dp >= 0 => eq(add(x, ZERO), x)
  /\ isZero(add(x, negate(x)))
  /\ (last.op = "toString"
        /\ last.this = add(BigDecStr(<<"0", ".", "1">>), BigDecStr(<<"0", ".", "2">>)))
       => last.res.str = <<"0", ".", "3">>

\* A negative x of a larger scale than the y added to it, y not zero.
C1_Witness ==
  /\ last.op = "add"
  /\ ~IsErr(last.res)
  /\ last.this.v.neg
  /\ last.this.dp > last.arg.dp
  /\ ~isZero(last.arg)
  /\ ~isZero(last.res)

\* The canonical decimal strings: an optional "-", an integer part without a
\* leading zero unless it is "0", and, after a point, a fractional part that
\* does not end in a zero; "-" only on a value that is not zero.
Canonical(s) ==
  Let(IF s # <<>> /\ s[1] = "-" THEN Tail(s) ELSE s,
      LAMBDA body :
        Let(IF IndexOf(body, ".") = -1 THEN Len(body) ELSE IndexOf(body, "."),
            LAMBDA pt :
              /\ \A i \in 1..Len(body) : IsDigitChar(body[i]) \/ i = pt + 1
              /\ pt >= 1
              /\ pt > 1 => body[1] # "0"
              /\ pt < Len(body) => pt + 1 < Len(body) /\ body[Len(body)] # "0"
              /\ body # s => \E i \in 1..Len(body) : body[i] \notin {"0", "."}))

\* C2: toString of a BigDec made from a valid string by add, sub, mul and
\* div only is the canonical minimal decimal string of its value.
C2_ToStringCanonical ==
  (last.op = "toString" /\ made \subseteq {"add", "sub", "mul", "div"})
    => Canonical(last.res.str)

\* |d.v| divides 10^FLOAT_PRECISION: the reciprocal of d terminates.
Terminates(d) ==
  ~isZero(d) /\ BigIsZero(BigMod(BigPow10(FLOAT_PRECISION), MkBig(FALSE, d.v.mag)))

\* C3: the inverse of a y that is not zero and whose reciprocal terminates
\* has the sign of y and the value 1 / value(y); x.div(y).mul(y) then has the
\* value of x; and 1 / 4 renders "0.25".
C3_InverseExact ==
  /\ (last.op = "inverse" /\ Terminates(last.this)) =>
        /\ ~IsErr(last.res)
        /\ BigSign(last.res.v) = BigSign(last.this.v)
        /\ IsOne(last.this, last.res)
  /\ (last.op = "div" /\ Terminates(last.arg)) =>
        /\ ~IsErr(last.res)
        /\ ~IsErr(mul(last.res, last.arg))
        /\ ValueCmp(mul(last.res, last.arg), last.this) = 0
  /\ (last.op = "toString" /\ last.this = div(BigDecStr(<<"1">>), BigDecStr(<<"4">>)))
       => last.res.str = <<"0", ".", "2", "5">>

\* C4: cmp is the numeric order of the values: 1, -1, 0 as value(x) is above,
\* below, equal to value(y), and gt and lt say the same as cmp.
C4_CmpNumeric ==
  (last.op = "cmp" /\ ~IsErr(last.res)) =>
    /\ last.res.ret = ValueCmp(last.this, last.arg)
    /\ gt(last.this, last.arg) = Ret(last.res.ret = 1)
    /\ lt(last.this, last.arg) = Ret(last.res.ret = -1)

\* C5: x.abs() has the magnitude and the scale of x and is not negative;
\* the abs of the BigDec of "-5" renders "5".
C5_AbsNonNegative ==
  /\ last.op = "abs" =>
        /\ ~IsErr(last.res)
        /\ last.res.dp = last.this.dp
        /\ last.res.v = MkBig(FALSE, last.this.v.mag)
  /\ (last.op = "toString" /\ made = {"abs"} /\ last.this.v.mag = <<5>> /\ last.this.dp = 0)
       => last.res.str = <<"5">>

\* The third factors that the products of the model are multiplied by.
Thirds ==
  {BigDecStr(<<"1", "0", "0", "0">>), BigDecStr(<<"-", "4">>), BigDecStr(<<"0", ".", "5">>)}

\* x.mul(y).mul(z) eq x.mul(y.mul(z)), the product xy of x and y given
Associates(x0, y, xy, z) ==
  /\ ~IsErr(xy)
  /\ ~IsErr(mul(y, z))
  /\ ~IsErr(mul(xy, z))
  /\ ~IsErr(mul(x0, mul(y, z)))
  /\ eq(mul(xy, z), mul(x0, mul(y, z)))

\* C6, as the specification states it: mul is commutative and associative
\* under eq, also when a summed scale is above FLOAT_PRECISION and the
\* constructor cuts it back.
C6_MulCommutesAssociates ==
  last.op = "mul" =>
    /\ ~IsErr(last.res)
    /\ ~IsErr(mul(last.arg, last.this))
    /\ eq(last.res, mul(last.arg, last.this))
    /\ \A z \in Thirds : Associates(last.this, last.arg, last.res, z)

\* C6, amended: x.mul(y) and y.mul(x) have the same outcome, the same v and
\* dp or the same throw; and mul is associative under eq for factors none
\* of whose summed scales is above FLOAT_PRECISION.
C6_MulCommutesAssociatesInCeiling ==
  last.op = "mul" =>
    /\ last.res = mul(last.arg, last.this)
    /\ \A z \in Thirds :
         (/\ last.this.dp + last.arg.dp <= FLOAT_PRECISION
          /\ last.arg.dp + z.dp <= FLOAT_PRECISION
          /\ last.this.dp + last.arg.dp + z.dp <= FLOAT_PRECISION)
           => Associates(last.this, last.arg, last.res, z)

\* A product of two fractions whose scales sum to the ceiling or less.
C6_Witness ==
  /\ last.op = "mul"
  /\ ~IsErr(last.res)
  /\ last.this.dp > 0
  /\ last.arg.dp > 0
  /\ last.this.dp + last.arg.dp <= FLOAT_PRECISION
  /\ ~isZero(last.res)
  /\ last.this # last.arg

\* C7: the square root r of a perfect square x has r.mul(r) eq x; only zero
\* and one are returned as they are; a negative x raises the error.
C7_SqrtOfSquares ==
  last.op = "sqrt" =>
    IF BigSign(last.this.v) < 0
      THEN last.res = Throw("Can't take the square root of a negative number in the real world.")
    ELSE /\ ~IsErr(last.res)
         /\ ~IsErr(mul(last.res, last.res))
         /\ eq(mul(last.res, last.res), last.this)
         /\ last.res = last.this =>
               \/ isZero(last.this)
               \/ ValueCmp(last.this, BigDecObj(0, Big(1))) = 0

\* The strings the constructor takes for numbers: /^-?\d*(\.\d*)?$/ once
\* the spaces and a leading "+" are off.
ValidNotation(str) ==
  Let(RemoveAll(str, " "),
      LAMBDA val : MatchesNotation(IF val # <<>> /\ val[1] = "+" THEN Tail(val) ELSE val))

\* C8: a scale above FLOAT_PRECISION is never an error: the BigDec of a valid
\* string and a product are made without a throw, with a scale that is at
\* most FLOAT_PRECISION.
C8_CeilingNeverThrows ==
  /\ (last.op = "BigDec" /\ ValidNotation(last.arg.str)) =>
        ~IsErr(last.res) /\ last.res.dp <= FLOAT_PRECISION
  /\ last.op = "mul" =>
        ~IsErr(last.res) /\ last.res.dp <= FLOAT_PRECISION

\* C9: the scale of every BigDec made from a valid string by negate, abs,
\* add, sub, mul, inverse, div and sqrt is in 0 .. FLOAT_PRECISION; the
\* reciprocal of 0.05 renders "20".
C9_ScaleInRange ==
  /\ 0 <= x.dp /\ x.dp <= FLOAT_PRECISION
  /\ (last.op = "toString" /\ last.this = inverse(BigDecStr(<<"0", ".", "0", "5">>)))
       => last.res.str = <<"2", "0">>

\* C10: cmp is a total order of the BigDecs: it returns 1, 0 or -1,
\* x.cmp(y) = -y.cmp(x), x.cmp(y) = 1 and y.cmp(z) = 1 give x.cmp(z) = 1, and
\* x.eq(y) exactly when x.cmp(y) = 0.
C10_CmpTotalOrder ==
  last.op = "cmp" =>
    /\ ~IsErr(last.res)
    /\ last.res.ret \in {-1, 0, 1}
    /\ cmp(last.arg, last.this) = Ret(0 - last.res.ret)
    /\ eq(last.this, last.arg) <=> last.res.ret = 0
    /\ \A z \in Thirds :
         (last.res.ret = 1 /\ cmp(last.arg, z) = Ret(1)) => cmp(last.this, z) = Ret(1)

\* Every object there was before a call is the same after it.
ObjectsKept ==
  /\ \A r \in DOMAIN heap : heap'[r] = heap[r]
  /\ \A z \in DOMAIN nums : nums'[z] = nums[z]

\* Everything the program was ever handed is as it was when handed over.
HeldKept ==
  /\ heap[1] = ZERO
  /\ \A r \in DOMAIN held.dec : heap[r] = held.dec[r]
  /\ \A z \in DOMAIN held.num : nums[z] = held.num[z]

\* C11: no method of BigDec or BigNum changes the dp or v of its receiver, of
\* its argument or of ZERO: a call leaves every object that existed before
\* it as it was (_simplifyPrecision only changes an object made within the
\* same call), so that every value the program was handed keeps the dp and
\* v it had then.
C11_OperandsKept == []HeldKept /\ [][ObjectsKept]_vars

\* this.div(this) returned a new object the trailing zeros of which
\* _simplifyPrecision dropped in place.
C11_Witness ==
  /\ last.op = "BigDec.div"
  /\ ~IsErr(last.res)
  /\ last.this = last.arg
  /\ last.res.ref # last.this.ref
  /\ last.this.ref \in DOMAIN held.dec
  /\ heap[last.res.ref] # mul(heap[last.this.ref], inverse(heap[last.arg.ref]))
  /\ heap[last.res.ref].dp < mul(heap[last.this.ref], inverse(heap[last.arg.ref])).dp

\* |value(d)| with the scale of d
Magnitude(d) == BigDecObj(d.dp, MkBig(FALSE, d.v.mag))

\* What abs returned is the real number value(d): a BigDec of that value, or
\* a BigNum with that re and a zero im.
IsReal(res, d) ==
  IF "ref" \in DOMAIN res THEN ValueCmp(heap[res.ref], d) = 0
  ELSE /\ isZero(heap[nums[res.num].im])
       /\ ValueCmp(heap[nums[res.num].re], d) = 0

\* The magnitude that abs has to return for re + im i.
IsMagnitudeOf(res, re, im) ==
  /\ isZero(im) => IsReal(res, Magnitude(re))
  /\ isZero(re) => IsReal(res, Magnitude(im))
  /\ (~isZero(re) /\ ~isZero(im)) =>
       /\ "ref" \in DOMAIN res
       /\ Let(sqrtRef(<<ZERO, add(square(re), square(im))>>, 2),
              LAMBDA r : heap[res.ref] = r.h[r.ref])

\* C12: the magnitude of a BigNum z: z.abs() is |z.re| when z.im is zero,
\* |z.im| when z.re is zero, and otherwise the sqrt of re^2 + im^2.
C12_AbsOfAxisAligned ==
  last.op = "BigNum.abs" =>
    /\ ~IsErr(last.res)
    /\ IsMagnitudeOf(last.res, heap[nums[last.this.num].re],
                     heap[nums[last.this.num].im])

\* The number that the limbs v are the digits of.
RECURSIVE LimbsValue(_, _)
LimbsValue(v, n) == IF n = 0 THEN 0 ELSE v[n] + (MAX_INT + 1) * LimbsValue(v, n - 1)

\* C13: Dec(a).sub(b) on two numbers a, b >= 0 borrows correctly: its limbs
\* are digits 0 .. 9, their value is |a - b| and the sign is that of a - b,
\* whatever the limb counts of a and b; Dec(3).sub(10) renders "-7".
C13_SubBorrowCorrect ==
  last.op = "Dec.sub" =>
    /\ ~IsErr(last.res)
    /\ \A i \in 1..Len(last.res.v) : last.res.v[i] \in 0..MAX_INT
    /\ LimbsValue(last.res.v, Len(last.res.v))
         = (IF last.this >= last.arg THEN last.this - last.arg
            ELSE last.arg - last.this)
    /\ last.this > last.arg => last.res.sign = 1
    /\ last.this < last.arg => last.res.sign = -1
    /\ (last.this = 3 /\ last.arg = 10) => DecToString(last.res) = <<"-", "7">>

====
